---- MODULE Spec2Model ----
(***************************************************************************)
(* A model of clout.py: the pipeline main() that scrapes each blog of      *)
(* BLOG_URLS, enriches it with SERP pages, drives the local model once per *)
(* variant and appends the results to the workbook clout_posts.xlsx.       *)
(*                                                                         *)
(* Two representations of Python strings are used.                         *)
(*  - The model's output (full_text, headline, body) is a sequence of      *)
(*    one-character strings, so that split/replace/strip are computed      *)
(*    character by character.                                              *)
(*  - Page texts and the prompt, of which only the length and the origin   *)
(*    of each character matter, are sequences of slices                    *)
(*    [src, off, len]: len characters of the text named src, starting at   *)
(*    its character number off (0-based).  No slice is empty.              *)
(***************************************************************************)
EXTENDS Integers, Sequences, FiniteSets, TLC

VARIABLES
    pc,           \* position of main(): the statement to execute next
    env,          \* the environment read at import: .env and llama_cpp
    excel,        \* the file EXCEL_FILE: [exists, wb], wb maps sheet -> rows
    excel0,       \* the file as it was when main() started (history)
    llm,          \* main's local llm
    url_idx,      \* index in BLOG_URLS of the for loop of main
    blog_text,    \* main's local blog_text (slices)
    serp_links,   \* main's local serp_links
    link_idx,     \* index in serp_links of the inner for loop
    serp_text,    \* main's local serp_text (slices)
    entities,     \* main's local entities
    var_idx,      \* index in VARIANTS of the variant loop
    result,       \* main's local result: what generate_one_variant returned
    prompt,       \* the prompt last passed to the model, with its composition
    full_text,    \* the text accumulated from the stream of the last call
    last_scrape,  \* the last call of scrape_url: url, response, outcome (history)
    last_llm,     \* the last call of the model: its error, if any (history)
    blog_result,  \* per index of BLOG_URLS, how its blog fetch ended (history)
    crash,        \* the exception that ended main(), "none" while there is none
    trace         \* the requests, generations and appends made so far (history)

vars == <<pc, env, excel, excel0, llm, url_idx, blog_text, serp_links, link_idx,
          serp_text, entities, var_idx, result, prompt, full_text, last_scrape,
          last_llm, blog_result, crash, trace>>

Min(a, b) == IF a <= b THEN a ELSE b

(***************************************************************************)
(* Strings as slices.                                                      *)
(***************************************************************************)
Lit(src, n) == IF n = 0 THEN <<>> ELSE <<[src |-> src, off |-> 0, len |-> n]>>

RECURSIVE TLen(_)
TLen(t) == IF t = <<>> THEN 0 ELSE t[1].len + TLen(Tail(t))

\* Python's t[:n] for n >= 0
RECURSIVE TTake(_, _)
TTake(t, n) ==
    IF n = 0 \/ t = <<>> THEN <<>>
    ELSE IF t[1].len <= n THEN <<t[1]>> \o TTake(Tail(t), n - t[1].len)
    ELSE <<[t[1] EXCEPT !.len = n]>>

\* the i-th character of t (1-based), named by its origin
RECURSIVE CharAt(_, _)
CharAt(t, i) ==
    IF i <= t[1].len THEN <<t[1].src, t[1].off + i - 1>>
    ELSE CharAt(Tail(t), i - t[1].len)

\* a slice text as the string stored in a cell of the workbook
RECURSIVE Render(_)
Render(t) ==
    IF t = <<>> THEN ""
    ELSE "<" \o t[1].src \o "@" \o ToString(t[1].off) \o "+" \o ToString(t[1].len)
         \o ">" \o Render(Tail(t))

(***************************************************************************)
(* Strings as characters.                                                  *)
(***************************************************************************)
RECURSIVE Str(_)
Str(s) == IF s = <<>> THEN "" ELSE s[1] \o Str(Tail(s))

\* the characters str.strip() removes, among those of the model's alphabet
Whitespace == {" ", "\n"}

StartsWith(s, m) == Len(s) >= Len(m) /\ SubSeq(s, 1, Len(m)) = m

\* str.find: the 1-based position of the first occurrence of m in s, 0 if none
RECURSIVE FindFrom(_, _, _)
FindFrom(s, m, i) ==
    IF i + Len(m) - 1 > Len(s) THEN 0
    ELSE IF SubSeq(s, i, i + Len(m) - 1) = m THEN i
    ELSE FindFrom(s, m, i + 1)

Find(s, m) == FindFrom(s, m, 1)

\* m in s
Contains(s, m) == Find(s, m) # 0

\* s.replace(m, ""): scan from the left, dropping each occurrence met
RECURSIVE Remove(_, _)
Remove(s, m) ==
    IF s = <<>> THEN <<>>
    ELSE IF StartsWith(s, m) THEN Remove(SubSeq(s, Len(m) + 1, Len(s)), m)
    ELSE <<s[1]>> \o Remove(Tail(s), m)

RECURSIVE LStrip(_)
LStrip(s) == IF s # <<>> /\ s[1] \in Whitespace THEN LStrip(Tail(s)) ELSE s

RECURSIVE RStrip(_)
RStrip(s) ==
    IF s # <<>> /\ s[Len(s)] \in Whitespace THEN RStrip(SubSeq(s, 1, Len(s) - 1))
    ELSE s

\* str.strip()
Strip(s) == RStrip(LStrip(s))

(***************************************************************************)
(* Configuration of clout.py.                                              *)
(***************************************************************************)
BLOG_URLS == <<"https://blog/1", "https://blog/2", "https://blog/3">>

\* label and the length of the instruction fragment of each variant
VARIANTS ==
    << [label |-> "Thought Leadership",     instr_len |-> 88],
       [label |-> "Story Narrative",        instr_len |-> 96],
       [label |-> "Actionable / Framework", instr_len |-> 91] >>

BLOG_TRIM == 5000
SERP_TRIM == 7000
MAX_CHARS == 7000
DEBUG_TRIM == 5000
SERP_NUM == 5

\* lengths of the four literal parts of the prompt's f-string
TEMPLATE_INTRO_LEN == 114
TEMPLATE_STYLE_LEN == 20
TEMPLATE_RULES_LEN == 1057
TEMPLATE_ENVELOPE_LEN == 310

HEADLINE == <<"H", "E", "A", "D", "L", "I", "N", "E", ":">>
POST == <<"P", "O", "S", "T", ":">>
ERROR == <<"E", "R", "R", "O", "R">>
LINKEDIN_POST == <<"L", "i", "n", "k", "e", "d", "I", "n", " ", "P", "o", "s", "t">>

LINKEDIN_HEADER ==
    <<"source_url", "variant", "headline", "body",
      "serp_emails", "serp_proper_nouns", "serp_links">>

DEBUG_HEADER == <<"source_url", "serp_links", "serp_text">>

(***************************************************************************)
(* The web, as far as a run sees it.  Every URL has one page; the text of  *)
(* its paragraphs is PageLen(url) characters of the text named url.        *)
(***************************************************************************)
SERP_LINK == "https://serp/1"
INVALID_LINK == "not a url"
NEWLINES == "\\n\\n"

PageLen(url) ==
    CASE url = BLOG_URLS[1] -> 300
      [] url = BLOG_URLS[2] -> 6000
      [] url = BLOG_URLS[3] -> 5000
      [] OTHER -> 800

PageEmails(src) == IF src = SERP_LINK THEN {"jane.doe@example.com"} ELSE {}
PageNouns(src) == IF src = SERP_LINK THEN {"Jane Doe", "Acme Corp"} ELSE {}

\* what requests.get and the parser can make of a URL
RequestFailures == {"timeout", "http_error", "transport_error"}

Responses(url) ==
    [kind : RequestFailures \cup {"malformed_html"}, paras : {<<>>}]
    \cup [kind : {"html"}, paras : {<<>>, Lit(url, PageLen(url))}]

\* validators.url
ValidUrl(link) == link # INVALID_LINK

(***************************************************************************)
(* UTILITIES                                                               *)
(***************************************************************************)
\* scrape_url: only the request is inside the try; an exception of the
\* parser leaves the function
scrape_url(resp) ==
    IF resp.kind \in RequestFailures THEN [raised |-> FALSE, text |-> <<>>]
    ELSE IF resp.kind = "malformed_html" THEN [raised |-> TRUE, text |-> <<>>]
    ELSE [raised |-> FALSE, text |-> resp.paras]

\* serpapi_search: resp is [ok, organic], organic the links of organic_results
serpapi_search(key, resp, num) ==
    IF ~key THEN <<>>
    ELSE IF ~resp.ok THEN <<>>
    ELSE SelectSeq(SubSeq(resp.organic, 1, Min(num, Len(resp.organic))), ValidUrl)

\* sorted(set(...)) over the strings that occur in the pages of the model
SortedEmails(S) == SelectSeq(<<"jane.doe@example.com">>, LAMBDA e : e \in S)
SortedNouns(S) == SelectSeq(<<"Acme Corp", "Jane Doe">>, LAMBDA e : e \in S)

\* extract_entities, over the pages that are whole in text
extract_entities(text) ==
    LET whole == {i \in 1..Len(text) :
                     text[i].off = 0 /\ text[i].len = PageLen(text[i].src)}
    IN [emails |-> SortedEmails(UNION {PageEmails(text[i].src) : i \in whole}),
        proper_nouns |-> SortedNouns(UNION {PageNouns(text[i].src) : i \in whole})]

(***************************************************************************)
(* LLM                                                                     *)
(***************************************************************************)
None == "None"
Llama == "Llama"

\* load_llm
load_llm(e) ==
    IF ~e.model_path_ok THEN None
    ELSE IF ~e.llama_cpp THEN None
    ELSE Llama

\* the trim cutting one character short
final_trim_prompt_short(p, max_chars) ==
    IF TLen(p) <= max_chars THEN p ELSE TTake(p, max_chars - 1)

final_trim_prompt(p, max_chars) ==
    IF TLen(p) <= max_chars THEN p ELSE TTake(p, max_chars)

\* the f-string of generate_one_variant, before the final trim
ComposePrompt(v, blog, serp) ==
    LET b == TTake(blog, BLOG_TRIM)
        s == TTake(serp, SERP_TRIM)
        combined == b \o Lit(NEWLINES, 2) \o s
    IN Lit("template:intro", TEMPLATE_INTRO_LEN)
       \o Lit(VARIANTS[v].label, Len(VARIANTS[v].label))
       \o Lit("template:style", TEMPLATE_STYLE_LEN)
       \o Lit("instr:" \o VARIANTS[v].label, VARIANTS[v].instr_len)
       \o Lit("template:rules", TEMPLATE_RULES_LEN)
       \o combined
       \o Lit("template:envelope", TEMPLATE_ENVELOPE_LEN)

\* the prompt generate_one_variant passes to the model
BuildPrompt(v, blog, serp) == final_trim_prompt(ComposePrompt(v, blog, serp), MAX_CHARS)

\* the streaming loop: the text of the chunks that carry choices, in order
RECURSIVE Accumulate(_)
Accumulate(chunks) ==
    IF chunks = <<>> THEN <<>>
    ELSE (IF chunks[1].choices THEN chunks[1].text ELSE <<>>) \o Accumulate(Tail(chunks))

\* str.rfind: the position of the last occurrence of m in s, 0 if none
RECURSIVE FindLastFrom(_, _, _)
FindLastFrom(s, m, i) ==
    IF i < 1 THEN 0
    ELSE IF SubSeq(s, i, i + Len(m) - 1) = m THEN i
    ELSE FindLastFrom(s, m, i - 1)

\* the split made at the last occurrence of POST:
SplitAtLast(text) == FindLastFrom(text, POST, Len(text) - Len(POST) + 1)

\* where full_text is split: at the first occurrence of POST:
SplitAt(text) == Find(text, POST)

\* Parse HEADLINE and POST
ParseOutput(text) ==
    IF Contains(text, POST)
    THEN LET i == SplitAt(text)
             head_part == SubSeq(text, 1, i - 1)
             post_part == SubSeq(text, i + Len(POST), Len(text))
         IN [headline |-> Strip(Remove(head_part, HEADLINE)), body |-> Strip(post_part)]
    ELSE [headline |-> LINKEDIN_POST, body |-> Strip(text)]

\* which exceptions of the model call the except clause catches
Caught(error) == error = "ValueError"

\* generate_one_variant after the prompt: resp is [chunks, error], the chunks
\* the stream yields and the exception that ends it ("none": it ends normally)
generate_one_variant(resp) ==
    IF resp.error # "none"
    THEN IF Caught(resp.error)
         THEN [raised |-> FALSE, value |-> [headline |-> ERROR, body |-> <<>>]]
         ELSE [raised |-> TRUE, value |-> [headline |-> <<>>, body |-> <<>>]]
    ELSE [raised |-> FALSE, value |-> ParseOutput(Accumulate(resp.chunks))]

(***************************************************************************)
(* EXCEL                                                                   *)
(***************************************************************************)
NoWorkbook == [exists |-> FALSE, wb |-> <<>>]

RECURSIVE Join(_)
Join(list) ==
    IF list = <<>> THEN ""
    ELSE IF Len(list) = 1 THEN list[1]
    ELSE list[1] \o ", " \o Join(Tail(list))

RECURSIVE Quoted(_)
Quoted(list) ==
    IF list = <<>> THEN <<>> ELSE <<"\"" \o list[1] \o "\"">> \o Quoted(Tail(list))

\* json.dumps of a list of strings
JsonDumps(list) == "[" \o Join(Quoted(list)) \o "]"

\* init_excel without the test that the file exists
init_excel_always(file) ==
    [exists |-> TRUE,
     wb |-> [sheet \in {"linkedin", "serp_debug"} |->
                IF sheet = "linkedin" THEN <<LINKEDIN_HEADER>> ELSE <<>>]]

\* init_excel: the file after the call
init_excel(file) ==
    IF ~file.exists
    THEN [exists |-> TRUE,
          wb |-> [sheet \in {"linkedin", "serp_debug"} |->
                     IF sheet = "linkedin" THEN <<LINKEDIN_HEADER>> ELSE <<>>]]
    ELSE file

\* the row append_to_excel_row writes
LinkedinRow(row) ==
    <<row.source_url, row.variant, Str(row.headline), Str(row.body),
      Join(row.serp_emails), Join(row.serp_proper_nouns), Join(row.serp_links)>>

\* append_to_excel_row: the file after the call
append_to_excel_row(file, row) ==
    [file EXCEPT !.wb = [file.wb EXCEPT !["linkedin"] = Append(@, LinkedinRow(row))]]

\* save_serp_debug: the file after the call
save_serp_debug(file, url, links, text) ==
    LET new == <<url, JsonDumps(links), Render(TTake(text, DEBUG_TRIM))>>
    IN IF "serp_debug" \notin DOMAIN file.wb
       THEN [file EXCEPT !.wb = [sheet \in DOMAIN file.wb \cup {"serp_debug"} |->
                                    IF sheet = "serp_debug" THEN <<DEBUG_HEADER, new>>
                                    ELSE file.wb[sheet]]]
       ELSE [file EXCEPT !.wb = [file.wb EXCEPT !["serp_debug"] = Append(@, new)]]

(***************************************************************************)
(* What the environment can answer.                                        *)
(***************************************************************************)
MaxChunks == 4

RECURSIVE SeqsUpTo(_, _)
SeqsUpTo(S, n) ==
    IF n = 0 THEN {<<>>}
    ELSE LET shorter == SeqsUpTo(S, n - 1)
         IN shorter \cup {Append(q, x) : q \in shorter, x \in S}

\* the answers of the search API: a failure, or a list of organic results
SearchResponses ==
    {[ok |-> FALSE, organic |-> <<>>]}
    \cup {[ok |-> TRUE, organic |-> o] : o \in {<<>>, <<SERP_LINK>>, <<INVALID_LINK, SERP_LINK>>}}

Chunk(text) == [choices |-> TRUE, text |-> text]

\* a stream that follows the envelope the prompt asks for
ENVELOPE ==
    << Chunk(<<"#", "#", "#", "\n">>), Chunk(HEADLINE), Chunk(<<"\n", "A", "\n", "\n">>),
       Chunk(POST), Chunk(<<"\n", "b", "\n", "#", "#", "#">>) >>

\* what calling llm(prompt, stream=True) can do: a None handle is not callable
LlmResponses(h) ==
    IF h = None THEN {[chunks |-> <<>>, error |-> "TypeError"]}
    ELSE {[chunks |-> ENVELOPE, error |-> "none"],
          [chunks |-> SubSeq(ENVELOPE, 1, 2), error |-> "ValueError"],
          [chunks |-> SubSeq(ENVELOPE, 1, 2), error |-> "RuntimeError"]}

\* the workbook a previous run of main() left behind
PreviousRun ==
    [exists |-> TRUE,
     wb |-> [sheet \in {"linkedin", "serp_debug"} |->
                IF sheet = "linkedin"
                THEN <<LINKEDIN_HEADER,
                       <<BLOG_URLS[1], VARIANTS[1].label, "Old", "old body", "", "", "">> >>
                ELSE << <<BLOG_URLS[1], "[]", "">> >>]]

\* a workbook that has no sheet serp_debug
OnlyLinkedin ==
    [exists |-> TRUE, wb |-> [sheet \in {"linkedin"} |-> <<LINKEDIN_HEADER>>]]

InitialFiles == {NoWorkbook, PreviousRun, OnlyLinkedin}

NoResult == [headline |-> <<>>, body |-> <<>>]

Event(op, item, variant) == [op |-> op, item |-> item, variant |-> variant]

(***************************************************************************)
(* MAIN                                                                    *)
(***************************************************************************)
Locals ==
    /\ llm = None
    /\ url_idx = 1
    /\ blog_text = <<>>
    /\ serp_links = <<>>
    /\ link_idx = 1
    /\ serp_text = <<>>
    /\ entities = [emails |-> <<>>, proper_nouns |-> <<>>]
    /\ var_idx = 1
    /\ result = NoResult
    /\ prompt = [composed |-> <<>>, final |-> <<>>]
    /\ full_text = <<>>
    /\ last_scrape = [url |-> "", kind |-> "none", raised |-> FALSE, text |-> <<>>]
    /\ last_llm = [chunks |-> <<>>, error |-> "none"]
    /\ blog_result = [i \in 1..Len(BLOG_URLS) |-> "pending"]
    /\ crash = "none"
    /\ trace = <<>>

Init ==
    /\ pc = "init_excel"
    /\ env \in [serpapi_key : BOOLEAN, model_path_ok : BOOLEAN, llama_cpp : BOOLEAN]
    /\ excel \in InitialFiles
    /\ excel0 = excel
    /\ Locals

\* an exception leaves main()
Raise(what) ==
    /\ pc' = "crashed"
    /\ crash' = what

\* the test of the handle left out
UnusableNever(h) == FALSE

\* `not llm`
Unusable(h) == h = None

\* main, line 261
InitExcel ==
    /\ pc = "init_excel"
    /\ \E io_ok \in (IF excel.exists THEN {TRUE} ELSE BOOLEAN) :
          IF io_ok
          THEN /\ excel' = init_excel(excel)
               /\ pc' = "load_llm"
               /\ crash' = crash
          ELSE /\ Raise("store")
               /\ excel' = excel
    /\ UNCHANGED <<env, excel0, llm, url_idx, blog_text, serp_links, link_idx, serp_text,
                   entities, var_idx, result, prompt, full_text, last_scrape, last_llm,
                   blog_result, trace>>

\* main, lines 262-264
LoadLlm ==
    /\ pc = "load_llm"
    /\ llm' = load_llm(env)
    /\ pc' = IF Unusable(llm') THEN "done" ELSE "scrape_blog"
    /\ UNCHANGED <<env, excel, excel0, url_idx, blog_text, serp_links, link_idx,
                   serp_text, entities, var_idx, result, prompt, full_text, last_scrape,
                   last_llm, blog_result, crash, trace>>

\* how a blog fetch ended, for the record
FetchResult(resp, r) ==
    IF r.raised THEN "raised"
    ELSE IF r.text # <<>> THEN "text"
    ELSE IF resp.kind \in RequestFailures THEN "failed"
    ELSE "empty"

\* main, lines 266-271
ScrapeBlog ==
    /\ pc = "scrape_blog"
    /\ url_idx <= Len(BLOG_URLS)
    /\ \E resp \in Responses(BLOG_URLS[url_idx]) :
          LET r == scrape_url(resp)
          IN /\ last_scrape' = [url |-> BLOG_URLS[url_idx], kind |-> resp.kind,
                                raised |-> r.raised, text |-> r.text]
             /\ blog_result' = [blog_result EXCEPT ![url_idx] = FetchResult(resp, r)]
             /\ trace' = Append(trace, Event("scrape_blog", url_idx, 0))
             /\ IF r.raised
                THEN /\ Raise("scrape_url")
                     /\ UNCHANGED <<blog_text, url_idx>>
                ELSE IF r.text = <<>>
                THEN /\ blog_text' = r.text
                     /\ url_idx' = url_idx + 1
                     /\ UNCHANGED <<pc, crash>>
                ELSE /\ blog_text' = r.text
                     /\ pc' = "serp_search"
                     /\ UNCHANGED <<url_idx, crash>>
    /\ UNCHANGED <<env, excel, excel0, llm, serp_links, link_idx, serp_text, entities,
                   var_idx, result, prompt, full_text, last_llm>>

\* main, lines 273-277
SerpSearch ==
    /\ pc = "serp_search"
    /\ \E resp \in SearchResponses :
          /\ serp_links' = serpapi_search(env.serpapi_key, resp, SERP_NUM)
          /\ trace' = IF env.serpapi_key
                      THEN Append(trace, Event("serpapi_search", url_idx, 0))
                      ELSE trace
    /\ serp_text' = <<>>
    /\ link_idx' = 1
    /\ pc' = IF serp_links' = <<>> THEN "save_serp_debug" ELSE "scrape_serp"
    /\ UNCHANGED <<env, excel, excel0, llm, url_idx, blog_text, entities, var_idx, result,
                   prompt, full_text, last_scrape, last_llm, blog_result, crash>>

\* main, lines 278-280: one turn of the loop over serp_links
ScrapeSerp ==
    /\ pc = "scrape_serp"
    /\ \E resp \in Responses(serp_links[link_idx]) :
          LET r == scrape_url(resp)
          IN /\ last_scrape' = [url |-> serp_links[link_idx], kind |-> resp.kind,
                                raised |-> r.raised, text |-> r.text]
             /\ trace' = Append(trace, Event("scrape_serp", url_idx, 0))
             /\ IF r.raised
                THEN /\ Raise("scrape_url")
                     /\ UNCHANGED <<serp_text, link_idx>>
                ELSE /\ serp_text' = serp_text \o r.text \o Lit(NEWLINES, 2)
                     /\ link_idx' = link_idx + 1
                     /\ pc' = IF link_idx = Len(serp_links) THEN "save_serp_debug"
                              ELSE "scrape_serp"
                     /\ crash' = crash
    /\ UNCHANGED <<env, excel, excel0, llm, url_idx, blog_text, serp_links, entities,
                   var_idx, result, prompt, full_text, last_llm, blog_result>>

\* the debug row not saved before the variants
SaveSerpDebugSkipped ==
    /\ pc = "save_serp_debug"
    /\ entities' = extract_entities(serp_text)
    /\ var_idx' = 1
    /\ pc' = "generate"
    /\ UNCHANGED <<env, excel, excel0, llm, url_idx, blog_text, serp_links, link_idx,
                   serp_text, result, prompt, full_text, last_scrape, last_llm,
                   blog_result, crash, trace>>

\* main, lines 282-286
SaveSerpDebug ==
    /\ pc = "save_serp_debug"
    /\ entities' = extract_entities(serp_text)
    /\ \E io_ok \in BOOLEAN :
          IF io_ok
          THEN /\ excel' = save_serp_debug(excel, BLOG_URLS[url_idx], serp_links, serp_text)
               /\ trace' = Append(trace, Event("save_serp_debug", url_idx, 0))
               /\ var_idx' = 1
               /\ pc' = "generate"
               /\ crash' = crash
          ELSE /\ Raise("store")
               /\ UNCHANGED <<excel, trace, var_idx>>
    /\ UNCHANGED <<env, excel0, llm, url_idx, blog_text, serp_links, link_idx, serp_text,
                   result, prompt, full_text, last_scrape, last_llm, blog_result>>

\* main, line 290: generate_one_variant, the model answering from responses
GenerateOneVariant(responses) ==
    /\ pc = "generate"
    /\ prompt' = [composed |-> ComposePrompt(var_idx, blog_text, serp_text),
                  final |-> BuildPrompt(var_idx, blog_text, serp_text)]
    /\ \E resp \in responses :
          LET g == generate_one_variant(resp)
          IN /\ last_llm' = resp
             /\ full_text' = Accumulate(resp.chunks)
             /\ IF g.raised
                THEN /\ Raise(resp.error)
                     /\ result' = result
                ELSE /\ result' = g.value
                     /\ pc' = "append"
                     /\ crash' = crash
    /\ trace' = Append(trace, Event("generate", url_idx, var_idx))
    /\ UNCHANGED <<env, excel, excel0, llm, url_idx, blog_text, serp_links, link_idx,
                   serp_text, entities, var_idx, last_scrape, blog_result>>

\* the argument of append_to_excel_row at line 292
Row ==
    [source_url |-> BLOG_URLS[url_idx], variant |-> VARIANTS[var_idx].label,
     headline |-> result.headline, body |-> result.body,
     serp_emails |-> entities.emails, serp_proper_nouns |-> entities.proper_nouns,
     serp_links |-> serp_links]

\* main, lines 292-302, and the step of both for loops
AppendToExcelRow ==
    /\ pc = "append"
    /\ \E io_ok \in BOOLEAN :
          IF io_ok
          THEN /\ excel' = append_to_excel_row(excel, Row)
               /\ trace' = Append(trace, Event("append_to_excel_row", url_idx, var_idx))
               /\ IF var_idx < Len(VARIANTS)
                  THEN /\ var_idx' = var_idx + 1
                       /\ pc' = "generate"
                       /\ url_idx' = url_idx
                  ELSE /\ url_idx' = url_idx + 1
                       /\ pc' = "scrape_blog"
                       /\ var_idx' = var_idx
               /\ crash' = crash
          ELSE /\ Raise("store")
               /\ UNCHANGED <<excel, trace, var_idx, url_idx>>
    /\ UNCHANGED <<env, excel0, llm, blog_text, serp_links, link_idx, serp_text, entities,
                   result, prompt, full_text, last_scrape, last_llm, blog_result>>

\* main, line 304: the list is exhausted
Finish ==
    /\ pc = "scrape_blog"
    /\ url_idx > Len(BLOG_URLS)
    /\ pc' = "done"
    /\ UNCHANGED <<env, excel, excel0, llm, url_idx, blog_text, serp_links, link_idx,
                   serp_text, entities, var_idx, result, prompt, full_text, last_scrape,
                   last_llm, blog_result, crash, trace>>

Generate == GenerateOneVariant(LlmResponses(llm))

Next ==
    \/ InitExcel
    \/ LoadLlm
    \/ ScrapeBlog
    \/ SerpSearch
    \/ ScrapeSerp
    \/ SaveSerpDebug
    \/ Generate
    \/ AppendToExcelRow
    \/ Finish

Spec == Init /\ [][Next]_vars

(***************************************************************************)
(* generate_one_variant alone, on drawn inputs.                            *)
(***************************************************************************)
BlogLens == {1, 80, 3000, 4999, 5000, 5001, 5393, 9000}
SerpLens == {0, 2, 391, 392, 393, 802, 7000, 7001}

\* the history of a run that has reached line 290 for its first item
AtFirstGenerate ==
    /\ pc = "generate"
    /\ env = [serpapi_key |-> FALSE, model_path_ok |-> TRUE, llama_cpp |-> TRUE]
    /\ excel = save_serp_debug(init_excel(NoWorkbook), BLOG_URLS[1], <<>>, <<>>)
    /\ excel0 = NoWorkbook
    /\ llm = Llama
    /\ url_idx = 1
    /\ serp_links = <<>>
    /\ link_idx = 1
    /\ entities = [emails |-> <<>>, proper_nouns |-> <<>>]
    /\ result = NoResult
    /\ prompt = [composed |-> <<>>, final |-> <<>>]
    /\ full_text = <<>>
    /\ last_scrape = [url |-> BLOG_URLS[1], kind |-> "html", raised |-> FALSE,
                      text |-> blog_text]
    /\ last_llm = [chunks |-> <<>>, error |-> "none"]
    /\ blog_result = [i \in 1..Len(BLOG_URLS) |-> IF i = 1 THEN "text" ELSE "pending"]
    /\ crash = "none"
    /\ trace = <<Event("scrape_blog", 1, 0), Event("save_serp_debug", 1, 0)>>

\* prompts: every variant over blog and SERP texts of the drawn lengths
InitPrompt ==
    /\ var_idx \in 1..Len(VARIANTS)
    /\ blog_text \in {Lit(BLOG_URLS[1], n) : n \in BlogLens}
    /\ serp_text \in {Lit(SERP_LINK, n) : n \in SerpLens}
    /\ AtFirstGenerate

SpecPrompt == InitPrompt /\ [][Generate]_vars

\* the texts a chunk of the stream can carry, and a chunk without choices
ChunkTexts == {HEADLINE, POST, <<"P", "O">>, <<"S", "T", ":">>, <<" ">>, <<"\n">>,
               <<"a">>, <<"#", "#", "#">>}

Chunks == {Chunk(t) : t \in ChunkTexts} \cup {[choices |-> FALSE, text |-> POST]}

ParseResponses ==
    [chunks : SeqsUpTo(Chunks, MaxChunks), error : {"none", "ValueError", "RuntimeError"}]

InitParse ==
    /\ var_idx = 1
    /\ blog_text = Lit(BLOG_URLS[1], PageLen(BLOG_URLS[1]))
    /\ serp_text = <<>>
    /\ AtFirstGenerate

GenerateParse == GenerateOneVariant(ParseResponses)

SpecParse == InitParse /\ [][GenerateParse]_vars

(***************************************************************************)
(* What a run has added to the workbook.                                   *)
(***************************************************************************)
Ended == pc \in {"done", "crashed"}

RowsOf(file, sheet) ==
    IF file.exists /\ sheet \in DOMAIN file.wb THEN file.wb[sheet] ELSE <<>>

\* the rows of sheet that were not there when main() started, headers left out
Added(sheet, header) ==
    LET now == RowsOf(excel, sheet)
        before == RowsOf(excel0, sheet)
    IN SelectSeq(SubSeq(now, Len(before) + 1, Len(now)), LAMBDA row : row # header)

LinkedinAdded(i) ==
    SelectSeq(Added("linkedin", LINKEDIN_HEADER), LAMBDA row : row[1] = BLOG_URLS[i])

DebugAdded(i) ==
    SelectSeq(Added("serp_debug", DEBUG_HEADER), LAMBDA row : row[1] = BLOG_URLS[i])

IsRowPrefix(a, b) == Len(a) <= Len(b) /\ \A k \in 1..Len(a) : b[k] = a[k]

(***************************************************************************)
(* C1: in a run in which the model loads and no store I/O error occurs, by *)
(* the end of the run every source URL whose fetch succeeded has exactly   *)
(* three rows in 'linkedin', one per variant label, and every source URL   *)
(* whose fetch failed has none.                                            *)
(***************************************************************************)
C1_ThreeRowsPerFetchedItem ==
    (Ended /\ llm = Llama /\ crash # "store") =>
        \A i \in 1..Len(BLOG_URLS) :
            /\ blog_result[i] = "text" =>
                  /\ Len(LinkedinAdded(i)) = Len(VARIANTS)
                  /\ \A v \in 1..Len(VARIANTS) :
                        \E k \in 1..Len(LinkedinAdded(i)) :
                            LinkedinAdded(i)[k][2] = VARIANTS[v].label
            /\ blog_result[i] = "failed" => Len(LinkedinAdded(i)) = 0

(***************************************************************************)
(* C2: when the store does not exist, init_excel creates both sheets with  *)
(* their header rows, 'linkedin' with its seven columns and 'serp_debug'   *)
(* with source_url, serp_links, serp_text, before any data row is          *)
(* appended; on an existing store init_excel changes nothing.              *)
(***************************************************************************)
C2_InitCreatesBothHeaders ==
    /\ (~excel0.exists /\ excel.exists) =>
          /\ DOMAIN excel.wb = {"linkedin", "serp_debug"}
          /\ RowsOf(excel, "linkedin") # <<>>
          /\ RowsOf(excel, "linkedin")[1] = LINKEDIN_HEADER
          /\ RowsOf(excel, "serp_debug") # <<>>
          /\ RowsOf(excel, "serp_debug")[1] = DEBUG_HEADER
    /\ (excel0.exists /\ pc = "load_llm") => excel = excel0

(***************************************************************************)
(* C3: whenever the model call fails, with a context overflow or any other *)
(* backend error, generate_one_variant returns {headline: "ERROR",         *)
(* body: ""} and the failure does not leave it: main() goes on to the      *)
(* append of that variant.                                                 *)
(***************************************************************************)
C3_GenerationFailureIsLocal ==
    (llm = Llama /\ last_llm.error # "none") =>
        /\ crash # last_llm.error
        /\ pc = "append" => result = [headline |-> ERROR, body |-> <<>>]

(***************************************************************************)
(* C4: scrape_url returns the paragraph text, or the empty string on any   *)
(* failure of the request or of the parse; no failure raises out of it.    *)
(***************************************************************************)
C4_ScrapeNeverRaises ==
    /\ ~last_scrape.raised
    /\ last_scrape.kind \in RequestFailures \cup {"malformed_html"} =>
          last_scrape.text = <<>>

(***************************************************************************)
(* C5: by the end of a run, every item whose blog fetch returned non-empty *)
(* text has exactly one row in 'serp_debug', whatever its generations did, *)
(* and every item whose fetch returned empty text has no row in either     *)
(* sheet.  (Runs ended by a store I/O error are left out.)                 *)
(***************************************************************************)
C5_OneDebugRowPerProcessedItem ==
    (Ended /\ crash # "store") =>
        \A i \in 1..Len(BLOG_URLS) :
            /\ blog_result[i] = "text" => Len(DebugAdded(i)) = 1
            /\ blog_result[i] \in {"failed", "empty"} =>
                  Len(DebugAdded(i)) = 0 /\ Len(LinkedinAdded(i)) = 0

(***************************************************************************)
(* C6: if load_llm returns no usable handle, main() ends before the loop:  *)
(* no blog fetch, no search request, no generation call, and no data row   *)
(* appended to either sheet.                                               *)
(***************************************************************************)
C6_NoHandleNoProcessing ==
    (llm = None /\ pc \notin {"init_excel", "load_llm"}) =>
        /\ Ended
        /\ trace = <<>>
        /\ last_scrape.kind = "none"
        /\ last_llm = [chunks |-> <<>>, error |-> "none"]
        /\ Added("linkedin", LINKEDIN_HEADER) = <<>>
        /\ Added("serp_debug", DEBUG_HEADER) = <<>>

\* a run ended by load_llm for want of the library, the model file being there
C6_Witness ==
    /\ pc = "done"
    /\ llm = None
    /\ env.model_path_ok
    /\ ~env.llama_cpp

(***************************************************************************)
(* C7: a generated text that contains "POST:" is split at the first        *)
(* occurrence of the marker: the body is everything after it, trimmed of   *)
(* whitespace; the headline is everything before it, with the occurrences  *)
(* of "HEADLINE:" removed and trimmed of whitespace.                       *)
(***************************************************************************)
Occurs(s, m, i) ==
    /\ i >= 1
    /\ i + Len(m) - 1 <= Len(s)
    /\ \A k \in 1..Len(m) : s[i + k - 1] = m[k]

\* t is s without its leading and trailing whitespace
IsTrimOf(t, s) ==
    \E a \in 0..Len(s) : \E b \in a..Len(s) :
        /\ t = SubSeq(s, a + 1, b)
        /\ \A k \in 1..a : s[k] \in Whitespace
        /\ \A k \in (b + 1)..Len(s) : s[k] \in Whitespace
        /\ t # <<>> => (t[1] \notin Whitespace /\ t[Len(t)] \notin Whitespace)

\* position k of s lies in an occurrence of "HEADLINE:"
InMarker(s, k) == \E i \in 1..k : i + Len(HEADLINE) > k /\ Occurs(s, HEADLINE, i)

\* the characters of s that lie in no occurrence of "HEADLINE:", in order
RECURSIVE OutsideMarker(_, _)
OutsideMarker(s, k) ==
    IF k = 0 THEN <<>>
    ELSE OutsideMarker(s, k - 1) \o (IF InMarker(s, k) THEN <<>> ELSE <<s[k]>>)

C7_SplitAtFirstMarker ==
    (pc = "append" /\ last_llm.error = "none"
       /\ \E i \in 1..Len(full_text) : Occurs(full_text, POST, i)) =>
        \E i \in 1..Len(full_text) :
            /\ Occurs(full_text, POST, i)
            /\ \A j \in 1..(i - 1) : ~Occurs(full_text, POST, j)
            /\ LET before == SubSeq(full_text, 1, i - 1)
                   after == SubSeq(full_text, i + Len(POST), Len(full_text))
               IN /\ IsTrimOf(result.body, after)
                  /\ IsTrimOf(result.headline, OutsideMarker(before, Len(before)))

\* two markers, and a heading marker and whitespace to drop before the first
C7_Witness ==
    /\ pc = "append"
    /\ last_llm.error = "none"
    /\ full_text = <<" ">> \o HEADLINE \o POST \o POST
    /\ Len(last_llm.chunks) = 4
    /\ result = [headline |-> <<>>, body |-> POST]

(***************************************************************************)
(* C8: the prompt passed to the model is at most 7000 characters long; if  *)
(* the untruncated composition is longer than 7000 characters the prompt   *)
(* is its prefix of exactly 7000 characters, and otherwise it is the       *)
(* untruncated composition.                                                *)
(***************************************************************************)
IsTextPrefix(p, q) ==
    /\ TLen(p) <= TLen(q)
    /\ \A i \in 1..TLen(p) : CharAt(p, i) = CharAt(q, i)

C8_PromptBounded ==
    pc # "generate" =>
        /\ TLen(prompt.final) <= 7000
        /\ TLen(prompt.composed) > 7000 =>
              /\ TLen(prompt.final) = 7000
              /\ IsTextPrefix(prompt.final, prompt.composed)
        /\ TLen(prompt.composed) <= 7000 => prompt.final = prompt.composed

\* a composition cut inside the SERP text, the envelope instructions lost
C8_Witness ==
    /\ pc = "append"
    /\ TLen(blog_text) = 5000
    /\ TLen(serp_text) = 7001
    /\ TLen(prompt.composed) > 7000
    /\ TLen(prompt.final) = 7000
    /\ prompt.final[Len(prompt.final)].src = SERP_LINK

(***************************************************************************)
(* C9: init_excel, append_to_excel_row and save_serp_debug only append:    *)
(* every row of either sheet stays, unchanged and in its position;         *)
(* append_to_excel_row leaves 'serp_debug' as it is and save_serp_debug    *)
(* leaves 'linkedin' as it is.                                             *)
(***************************************************************************)
OnlyAppends ==
    /\ excel.exists => excel'.exists
    /\ \A sheet \in {"linkedin", "serp_debug"} :
          IsRowPrefix(RowsOf(excel, sheet), RowsOf(excel', sheet))
    /\ pc = "append" => RowsOf(excel', "serp_debug") = RowsOf(excel, "serp_debug")
    /\ pc = "save_serp_debug" => RowsOf(excel', "linkedin") = RowsOf(excel, "linkedin")

C9_StoreOnlyGrows == [][OnlyAppends]_vars

\* rows of a previous run, with rows of this run after them in both sheets
C9_Witness ==
    /\ excel0 = PreviousRun
    /\ Len(RowsOf(excel, "linkedin")) > Len(RowsOf(excel0, "linkedin"))
    /\ Len(RowsOf(excel, "serp_debug")) > Len(RowsOf(excel0, "serp_debug"))
    /\ IsRowPrefix(RowsOf(excel0, "linkedin"), RowsOf(excel, "linkedin"))

(***************************************************************************)
(* C10: items are processed one after another in BLOG_URLS order: the      *)
(* 'serp_debug' row of an item is appended before its 'linkedin' rows,     *)
(* which are appended in VARIANTS order, each right after its own          *)
(* generation, and every row of an item is appended before the blog fetch  *)
(* of the next item begins.                                                *)
(***************************************************************************)
Appends == SelectSeq(trace, LAMBDA e : e.op = "append_to_excel_row")
Saves == SelectSeq(trace, LAMBDA e : e.op = "save_serp_debug")

\* the last rows of the sheet are those of the events, in their order
RowsFollow(rows, events, Matches(_, _)) ==
    /\ Len(rows) >= Len(events)
    /\ \A k \in 1..Len(events) : Matches(rows[Len(rows) - Len(events) + k], events[k])

C10_Sequential ==
    /\ \A j \in 1..Len(trace) : \A i \in 1..(j - 1) : trace[i].item <= trace[j].item
    /\ \A k \in 1..Len(trace) :
          /\ trace[k].op = "scrape_blog" =>
                \A j \in 1..(k - 1) : trace[j].item < trace[k].item
          /\ trace[k].op = "append_to_excel_row" =>
                /\ k > 2
                /\ trace[k - 1] = Event("generate", trace[k].item, trace[k].variant)
                /\ trace[k - 2] =
                      IF trace[k].variant = 1
                      THEN Event("save_serp_debug", trace[k].item, 0)
                      ELSE Event("append_to_excel_row", trace[k].item, trace[k].variant - 1)
    /\ RowsFollow(RowsOf(excel, "linkedin"), Appends,
                  LAMBDA row, e : row[1] = BLOG_URLS[e.item]
                                  /\ row[2] = VARIANTS[e.variant].label)
    /\ RowsFollow(RowsOf(excel, "serp_debug"), Saves,
                  LAMBDA row, e : row[1] = BLOG_URLS[e.item])

\* a finished run that has appended the rows of the first and of the last item
C10_Witness ==
    /\ pc = "done"
    /\ blog_result = <<"text", "failed", "text">>
    /\ Len(Appends) = 2 * Len(VARIANTS)
    /\ Len(Saves) = 2

====
